---------------------------- MODULE Spec2Model ----------------------------
(***************************************************************************)
(* Temporal knowledge-graph ingestion pipeline of src/temporalagent/main.py *)
(*   extract_events_from_chunks -> resolve_entities_in_state ->            *)
(*   invalidate_events_in_state -> build_graph_from_state                  *)
(* with the module-level canonical-entities table (db_conn) shared by all  *)
(* ingestion runs.                                                         *)
(***************************************************************************)
EXTENDS Integers, Sequences, FiniteSets, TLC

(***************************************************************************)
(* Bounds of the model.                                                    *)
(***************************************************************************)
MaxRuns == 2        \* ingestion runs (invocations of the pipeline) sharing the table
MaxStmts == 3       \* statements of one batch in the invalidation specification
MaxPasses == 2      \* invalidation passes run over the events of one batch
MaxGraphStmts == 2  \* statements over all batches in the graph specification
MaxMentions == 4    \* entities over all batches in the resolution specification
MaxBatchMentions == 3  \* entities of one batch in the resolution specification

Runs == 1..MaxRuns

(***************************************************************************)
(* Optional values: None is the empty tuple, a present value v is <<v>>.   *)
(***************************************************************************)
None == <<>>
Some(v) == <<v>>
IsSet(o) == o # None
Val(o) == o[1]

Range(s) == {s[i] : i \in 1..Len(s)}

RECURSIVE SumSeq(_)
SumSeq(s) == IF s = <<>> THEN 0 ELSE Head(s) + SumSeq(Tail(s))

RECURSIVE Flatten(_)
Flatten(ss) == IF ss = <<>> THEN <<>> ELSE Head(ss) \o Flatten(Tail(ss))

\* The indexes 1..n in increasing order.
Indexes(n) == [i \in 1..n |-> i]

(***************************************************************************)
(* Enumerations.                                                           *)
(***************************************************************************)
StatementType == {"FACT", "OPINION", "PREDICTION"}
TemporalType == {"ATEMPORAL", "STATIC", "DYNAMIC"}
Predicate == {"IS_A", "HAS_A", "LOCATED_IN", "HOLDS_ROLE", "PRODUCES", "SELLS",
              "LAUNCHED", "DEVELOPED", "ADOPTED_BY", "INVESTS_IN",
              "COLLABORATES_WITH", "SUPPLIES", "HAS_REVENUE", "INCREASED",
              "DECREASED", "RESULTED_IN", "TARGETS", "PART_OF", "DISCONTINUED",
              "SECURED"}

(***************************************************************************)
(* Strings that the code inspects character by character are sequences of  *)
(* one-character strings.                                                  *)
(***************************************************************************)
Digits == {"0", "1", "2", "3", "4", "5", "6", "7", "8", "9"}
DigitVal(c) ==
    CASE c = "0" -> 0 [] c = "1" -> 1 [] c = "2" -> 2 [] c = "3" -> 3
      [] c = "4" -> 4 [] c = "5" -> 5 [] c = "6" -> 6 [] c = "7" -> 7
      [] c = "8" -> 8 [] c = "9" -> 9

RECURSIVE IntOf(_)
IntOf(s) == IF s = <<>> THEN 0
            ELSE 10 * IntOf(SubSeq(s, 1, Len(s) - 1)) + DigitVal(s[Len(s)])

\* str.strip(): leading and trailing blanks removed.
RECURSIVE LStrip(_)
LStrip(s) == IF s # <<>> /\ Head(s) = " " THEN LStrip(Tail(s)) ELSE s
RECURSIVE RStrip(_)
RStrip(s) == IF s # <<>> /\ s[Len(s)] = " "
             THEN RStrip(SubSeq(s, 1, Len(s) - 1)) ELSE s
Strip(s) == RStrip(LStrip(s))

\* str.lower() on the alphabet of the model.
LowerChar(c) ==
    CASE c = "A" -> "a" [] c = "B" -> "b" [] c = "C" -> "c" [] c = "D" -> "d"
      [] c = "T" -> "t" [] c = "R" -> "r" [] c = "U" -> "u" [] c = "E" -> "e"
      [] c = "F" -> "f" [] c = "L" -> "l" [] c = "S" -> "s" [] c = "M" -> "m"
      [] OTHER -> c
Lower(s) == [i \in 1..Len(s) |-> LowerChar(s[i])]

(***************************************************************************)
(* Timestamps are day ordinals on a calendar of 12 months of 31 days, so   *)
(* that the order of timestamps is the order of the dates.                 *)
(***************************************************************************)
Ordinal(y, m, d) == (y * 12 + (m - 1)) * 31 + (d - 1)

IsYearOnly(s) == Len(s) = 4 /\ \A i \in 1..4 : s[i] \in Digits

\* dateutil.parser.parse, for the date form YYYY-MM-DD; any other string of
\* the model's inputs raises.  The result is <<ok, timestamp>>.
DateutilParse(s) ==
    LET t == Strip(s)
        wellFormed == /\ Len(t) = 10
                      /\ t[5] = "-" /\ t[8] = "-"
                      /\ \A i \in {1, 2, 3, 4, 6, 7, 9, 10} : t[i] \in Digits
        y == IntOf(SubSeq(t, 1, 4))
        m == IntOf(SubSeq(t, 6, 7))
        d == IntOf(SubSeq(t, 9, 10))
    IN  IF wellFormed /\ y >= 1 /\ m \in 1..12 /\ d \in 1..31
        THEN <<TRUE, Ordinal(y, m, d)>>
        ELSE <<FALSE, 0>>

\* parse_date_str: None for an absent or empty value and for a string that
\* does not parse; January 1st of the year for a bare 4-digit year.
parse_date_str(value) ==
    IF value = None \/ Val(value) = <<>> THEN None
    ELSE LET s == Val(value)
         IN  IF IsYearOnly(Strip(s)) /\ IntOf(Strip(s)) >= 1
             THEN Some(Ordinal(IntOf(Strip(s)), 1, 1))
             ELSE IF IsYearOnly(Strip(s)) THEN None
             ELSE LET r == DateutilParse(s)
                  IN  IF r[1] THEN Some(r[2]) ELSE None

\* TemporalValidityRange.model_validate: both fields go through the
\* validator, each on its own.
TemporalValidityRange(raw) ==
    [valid_at |-> parse_date_str(raw.valid_at),
     invalid_at |-> parse_date_str(raw.invalid_at)]

(***************************************************************************)
(* rapidfuzz: fuzz.ratio is the normalised Indel similarity                 *)
(* 100 * 2 * LCS / (len1 + len2); fuzz.partial_ratio is the best fuzz.ratio *)
(* of the shorter string against the windows of the longer one.  Scores are *)
(* kept exact as integers: the score times ScoreScale.                      *)
(***************************************************************************)
ScoreScale == 8 * 9 * 5 * 7

Max2(a, b) == IF a >= b THEN a ELSE b

RECURSIVE LCS(_, _)
LCS(s, t) ==
    IF s = <<>> \/ t = <<>> THEN 0
    ELSE IF Head(s) = Head(t) THEN 1 + LCS(Tail(s), Tail(t))
    ELSE Max2(LCS(Tail(s), t), LCS(s, Tail(t)))

Ratio(s, t) ==
    IF Len(s) + Len(t) = 0 THEN 100 * ScoreScale
    ELSE (200 * LCS(s, t) * ScoreScale) \div (Len(s) + Len(t))

MaxOf(S) == CHOOSE x \in S : \A y \in S : y <= x

\* _partial_ratio_impl(s1, s2) with len(s1) <= len(s2): the prefixes of s2
\* shorter than s1, the windows of s2 as long as s1, and the suffixes of s2
\* not longer than s1; a window whose boundary character is not in s1 is
\* not scored.
PartialRatioImpl(s1, s2) ==
    LET m == Len(s1)
        n == Len(s2)
        chars == Range(s1)
        prefixes == {Ratio(s1, SubSeq(s2, 1, i)) :
                        i \in {j \in 1..(m - 1) : s2[j] \in chars}}
        windows == {Ratio(s1, SubSeq(s2, i + 1, i + m)) :
                        i \in {j \in 0..(n - m - 1) :
                                 s2[IF j + m = 0 THEN n ELSE j + m] \in chars}}
        suffixes == {Ratio(s1, SubSeq(s2, i + 1, n)) :
                        i \in {j \in (n - m)..(n - 1) : s2[j + 1] \in chars}}
    IN  MaxOf({0} \cup prefixes \cup windows \cup suffixes)

PartialRatio(s1, s2) ==
    IF Len(s1) = 0 /\ Len(s2) = 0 THEN 100 * ScoreScale
    ELSE IF Len(s1) < Len(s2) THEN PartialRatioImpl(s1, s2)
    ELSE IF Len(s1) > Len(s2) THEN PartialRatioImpl(s2, s1)
    ELSE Max2(PartialRatioImpl(s1, s2), PartialRatioImpl(s2, s1))

(***************************************************************************)
(* State.  Every ingestion run has its own GraphState; the canonical        *)
(* entities table behind db_conn is shared by all runs.                     *)
(***************************************************************************)
VARIABLES
    db,                 \* rows of the entities table, in insertion order
    nextId,             \* source of fresh ids (uuid.uuid4)
    pc,                 \* pc[r]: position of run r in the pipeline
    entities,           \* entities[r]: state["entities"]
    triplets,           \* triplets[r]: state["triplets"]
    temporal_events,    \* temporal_events[r]: state["temporal_events"]
    global_canonicals,  \* global_canonicals[r]: name -> id read by resolve
    graph,              \* graph[r]: the MultiDiGraph build_graph returned
    passes,             \* passes[r]: invalidation passes run so far
    consulted,          \* consulted[r]: oracle answers of the last pass
    before,             \* before[r]: the events as the last pass found them
    chunks,             \* chunks[r]: state["chunks"], each chunk as the statements
                        \* and extractions the chains return for it
    raw_extraction_result,  \* the extraction of the sample statement
    final_triplets,     \* the outcome of the sample's assembly
    mcp,                \* the call of MCPClient.call_tool in progress
    qa,                 \* the run of the question-answering workflow in progress
    chat_history,       \* chat_history: user id -> messages
    handlers,           \* the requests and socket messages being handled
    arrivals            \* the messages received so far, in order of arrival

\* The state of the ingestion pipeline.
pipeline == <<db, nextId, pc, entities, triplets, temporal_events,
              global_canonicals, graph, passes, consulted, before>>

\* The state of the assembly of the sample statement at module level.
sample == <<raw_extraction_result, final_triplets>>

\* The state of the question-answering service.
agent == <<mcp, qa, chat_history, handlers, arrivals>>

\* What the functions of the pipeline after extraction leave alone.
outside == <<chunks, sample, agent>>

vars == <<pipeline, chunks, sample, agent>>

EmptyMap == [x \in {} |-> x]
EmptyGraph == [nodes |-> EmptyMap, edges |-> EmptyMap]

\* The pipeline before any run: an empty table and empty states.
InitPipeline ==
    /\ db = <<>>
    /\ nextId = 1
    /\ pc = [r \in Runs |-> "idle"]
    /\ entities = [r \in Runs |-> <<>>]
    /\ triplets = [r \in Runs |-> <<>>]
    /\ temporal_events = [r \in Runs |-> <<>>]
    /\ global_canonicals = [r \in Runs |-> EmptyMap]
    /\ graph = [r \in Runs |-> EmptyGraph]
    /\ passes = [r \in Runs |-> 0]
    /\ consulted = [r \in Runs |-> EmptyMap]
    /\ before = [r \in Runs |-> <<>>]
    /\ chunks = [r \in Runs |-> <<>>]

\* No sample statement extracted.
NoSample ==
    /\ raw_extraction_result = [entities |-> <<>>, triplets |-> <<>>]
    /\ final_triplets = [outcome |-> "unset", triplets |-> <<>>]

MaxHandlers == 2  \* requests and sockets the service handles at a time
MaxMessages == 3  \* messages the service receives

\* The question-answering service before any request.
InitAgent ==
    /\ mcp = [pc |-> "idle", retries |-> 0, attempt |-> 0, posts |-> <<>>,
               sleeps |-> <<>>, returned |-> None, raised |-> None]
    /\ qa = [next |-> "idle", trace |-> <<>>]
    /\ chat_history = EmptyMap
    /\ handlers = [h \in 1..MaxHandlers |-> [kind |-> "none", user_id |-> "", pc |-> "free"]]
    /\ arrivals = <<>>

Init == InitPipeline /\ NoSample /\ InitAgent

(***************************************************************************)
(* extract_events_from_chunks.  The input of one statement is what the      *)
(* three extraction chains return for it: the labelled statement, the raw   *)
(* temporal range and the raw entities and triplets.                        *)
(***************************************************************************)
\* Positions of the first occurrence of each entity_idx: the keys of idx_map
\* in insertion order.
KeyPositions(raws) ==
    SelectSeq(Indexes(Len(raws)),
              LAMBDA i : \A j \in 1..(i - 1) : raws[j].entity_idx # raws[i].entity_idx)

\* idx_map: entity_idx -> Entity; a later raw entity with the same index
\* replaces the value of an earlier one.
idx_map(raws, nid) ==
    LET keys == KeyPositions(raws)
        last(k) == raws[MaxOf({i \in 1..Len(raws) :
                                  raws[i].entity_idx = raws[keys[k]].entity_idx})]
    IN  [idx \in {raws[i].entity_idx : i \in 1..Len(raws)} |->
            LET k == CHOOSE k \in 1..Len(keys) : raws[keys[k]].entity_idx = idx
            IN  [id |-> nid + k - 1,
                 name |-> last(k).name,
                 type |-> last(k).type,
                 description |-> last(k).description,
                 resolved_id |-> None]]

\* idx_map.values(), in insertion order.
IdxMapValues(raws, nid) ==
    LET keys == KeyPositions(raws)
    IN  [k \in 1..Len(keys) |-> idx_map(raws, nid)[raws[keys[k]].entity_idx]]

\* A raw triplet is kept when both of its indexes are keys of idx_map.
EndpointsKnown(t, im) == t.subject_id \in DOMAIN im /\ t.object_id \in DOMAIN im

BuildTriplets(rawTriplets, im, nid) ==
    LET kept == SelectSeq(rawTriplets, LAMBDA t : EndpointsKnown(t, im))
    IN  [k \in 1..Len(kept) |->
            [id |-> nid + k - 1,
             subject_name |-> im[kept[k].subject_id].name,
             subject_id |-> im[kept[k].subject_id].id,
             predicate |-> kept[k].predicate,
             object_name |-> im[kept[k].object_id].name,
             object_id |-> im[kept[k].object_id].id,
             value |-> kept[k].value]]

\* One iteration of the loop over stmts: ids are drawn for the chunk id, the
\* entities, the triplets and the event, in this order.
\* The TemporalEvent of a statement.
NewEvent(s, eid, cid, tr, tpls) ==
    [id |-> eid,
     chunk_id |-> cid,
     statement |-> s.statement,
     embedding |-> <<>>,
     statement_type |-> s.statement_type,
     temporal_type |-> s.temporal_type,
     valid_at |-> tr.valid_at,
     invalid_at |-> tr.invalid_at,
     triplets |-> [k \in 1..Len(tpls) |-> tpls[k].id],
     invalidated_by |-> None]

StatementOutput(s, nid, ents, tpls) ==
    [entities |-> ents,
     triplets |-> tpls,
     event |-> NewEvent(s, nid + 1 + Len(ents) + Len(tpls), nid,
                        TemporalValidityRange(s), tpls),
     nid |-> nid + 2 + Len(ents) + Len(tpls)]

StatementTriplets(s, nid, im, ents) ==
    StatementOutput(s, nid, ents,
                    BuildTriplets(s.triplets, im, nid + 1 + Len(ents)))

\* One iteration of the loop over stmts: ids are drawn for the chunk id, the
\* entities, the triplets and the event, in this order.
ExtractStatement(s, nid) ==
    StatementTriplets(s, nid, idx_map(s.entities, nid + 1),
                      IdxMapValues(s.entities, nid + 1))

Collect(acc, one) ==
    [entities |-> acc.entities \o one.entities,
     triplets |-> acc.triplets \o one.triplets,
     temporal_events |-> Append(acc.temporal_events, one.event),
     nid |-> one.nid]

RECURSIVE ExtractAll(_, _)
ExtractAll(stmts, acc) ==
    IF stmts = <<>> THEN acc
    ELSE ExtractAll(Tail(stmts), Collect(acc, ExtractStatement(Head(stmts), acc.nid)))

\* The state of run r after the function, out being what it returns.
Extracted(r, out) ==
    /\ entities' = [entities EXCEPT ![r] = out.entities]
    /\ triplets' = [triplets EXCEPT ![r] = out.triplets]
    /\ temporal_events' = [temporal_events EXCEPT ![r] = out.temporal_events]
    /\ nextId' = out.nid

ExtractBatch(r, stmts) ==
    /\ Extracted(r, ExtractAll(stmts, [entities |-> <<>>, triplets |-> <<>>,
                                       temporal_events |-> <<>>, nid |-> nextId]))
    /\ pc' = [pc EXCEPT ![r] = "extracted"]
    /\ UNCHANGED <<db, global_canonicals, graph, passes, consulted, before>>

\* Run r starts on a batch of the chains' outputs.
Extract(r, Batches) ==
    /\ pc[r] = "idle"
    /\ \E stmts \in Batches : ExtractBatch(r, stmts)
    /\ UNCHANGED outside

(***************************************************************************)
(* resolve_entities_in_state.                                               *)
(***************************************************************************)
ClusterThreshold == 80

\* A SELECT that would return no row.
ReadNothing(rows) == [n \in {} |-> n]

\* SELECT id, name FROM entities WHERE is_canonical = 1, as the dict
\* {name: id}: of two rows with one name the later row wins.
ReadCanonicals(rows) ==
    LET canon == {i \in 1..Len(rows) : rows[i].is_canonical = 1}
    IN  [n \in {rows[i].name : i \in canon} |->
            rows[MaxOf({i \in canon : rows[i].name = n})].id]

\* The keys of type_groups in insertion order: each type at its first entity.
TypeOrder(ents) ==
    LET firsts == SelectSeq(Indexes(Len(ents)),
                            LAMBDA i : \A j \in 1..(i - 1) : ents[j].type # ents[i].type)
    IN  [k \in 1..Len(firsts) |-> ents[firsts[k]].type]

\* A grouping that would put every entity in the group of every type.
TypeGroupAll(ents, ty) == Indexes(Len(ents))

\* type_groups[ty]: the entities (by position in state["entities"]) of a type.
TypeGroup(ents, ty) ==
    SelectSeq(Indexes(Len(ents)), LAMBDA i : ents[i].type = ty)

\* The test that lets group[j] join the cluster seeded by group[i], for a
\* similarity threshold of th percent.
JoinsAt(ents, a, b, th) ==
    PartialRatio(Lower(ents[a].name), Lower(ents[b].name)) >= th * ScoreScale

Joins(ents, a, b) == JoinsAt(ents, a, b, ClusterThreshold)

\* A cluster that a later unused j joins when it joins any member so far.
RECURSIVE Chain(_, _, _, _, _, _)
Chain(ents, group, j, acc, used, th) ==
    IF j > Len(group) THEN acc
    ELSE IF /\ j \notin used
            /\ \E k \in 1..Len(acc) : JoinsAt(ents, group[acc[k]], group[j], th)
         THEN Chain(ents, group, j + 1, Append(acc, j), used, th)
         ELSE Chain(ents, group, j + 1, acc, used, th)

MembersChained(ents, group, i, used, th) ==
    Chain(ents, group, i + 1, <<i>>, used, th)

\* The cluster seeded by group[i]: i and every later unused j that joins i.
Members(ents, group, i, used, th) ==
    <<i>> \o SelectSeq(Indexes(Len(group)),
                       LAMBDA j : /\ j > i
                                  /\ j \notin used
                                  /\ JoinsAt(ents, group[i], group[j], th))

\* The clustering loop over one group: i runs over the group, a used index is
\* skipped, and the cluster of i takes every later unused j that joins i.
RECURSIVE ClusterLoop(_, _, _, _, _, _)
ClusterStep(ents, group, i, used, clusters, th, members) ==
    ClusterLoop(ents, group, i + 1, used \cup Range(members),
                Append(clusters, [k \in 1..Len(members) |-> group[members[k]]]), th)

ClusterLoop(ents, group, i, used, clusters, th) ==
    IF i > Len(group) THEN clusters
    ELSE IF i \in used THEN ClusterLoop(ents, group, i + 1, used, clusters, th)
    ELSE ClusterStep(ents, group, i, used, clusters, th,
                     Members(ents, group, i, used, th))

ClusterGroup(ents, group, i, used, clusters) ==
    ClusterLoop(ents, group, i, used, clusters, ClusterThreshold)

\* All clusters for a threshold, type by type in the order of type_groups.
ClustersOf(ents, types, th) ==
    Flatten([k \in 1..Len(types) |->
                ClusterLoop(ents, TypeGroup(ents, types[k]), 1, {}, <<>>, th)])

ClustersAt(ents, th) == ClustersOf(ents, TypeOrder(ents), th)

\* All clusters, with the threshold of the code.
Clusters(ents) == ClustersAt(ents, ClusterThreshold)

\* scores[e.name]: the summed fuzz.ratio of e against the cluster's members.
MedoidScore(ents, cluster, a) ==
    SumSeq([k \in 1..Len(cluster) |->
               Ratio(Lower(ents[a].name), Lower(ents[cluster[k]].name))])

\* A choice of the last member with the greatest score.
LastBest(cluster, scores, best) ==
    cluster[CHOOSE k \in 1..Len(cluster) :
                /\ scores[k] = best
                /\ \A j \in (k + 1)..Len(cluster) : scores[j] # best]

\* max(cluster, key=...): the first member with the greatest score.
FirstBest(cluster, scores, best) ==
    cluster[CHOOSE k \in 1..Len(cluster) :
                /\ scores[k] = best
                /\ \A j \in 1..(k - 1) : scores[j] # best]

FirstMax(cluster, scores) == FirstBest(cluster, scores, MaxOf(Range(scores)))

Medoid(ents, cluster) ==
    FirstMax(cluster,
             [k \in 1..Len(cluster) |-> MedoidScore(ents, cluster, cluster[k])])

\* A lookup that would not consult the canonicals read from the table.
CanonicalIdUnread(ents, m, gc, newly) ==
    LET coined == {k \in 1..Len(newly) : ents[newly[k]].name = ents[m].name}
    IN  IF coined # {} THEN ents[newly[CHOOSE k \in coined : TRUE]].id
        ELSE ents[m].id

\* The canonical id of a cluster whose medoid is ents[m]: the stored id of
\* the name, else the id coined for the name earlier in this run, else the
\* medoid's own id.  newly is the sequence of medoids recorded so far.
CanonicalId(ents, m, gc, newly) ==
    LET name == ents[m].name
        coined == {k \in 1..Len(newly) : ents[newly[k]].name = name}
    IN  IF name \in DOMAIN gc THEN gc[name]
        ELSE IF coined # {} THEN ents[newly[CHOOSE k \in coined : TRUE]].id
        ELSE ents[m].id

IsNewCanonical(ents, m, gc, newly) ==
    /\ ents[m].name \notin DOMAIN gc
    /\ \A k \in 1..Len(newly) : ents[newly[k]].name # ents[m].name

\* One cluster: its members get the canonical id cid, and its medoid m is
\* recorded when the name is new.
AssignCluster(ents, cluster, gc, acc, m, cid) ==
    [resolved |-> [i \in DOMAIN acc.resolved |->
                      IF i \in Range(cluster) THEN Some(cid) ELSE acc.resolved[i]],
     newly |-> IF IsNewCanonical(ents, m, gc, acc.newly)
               THEN Append(acc.newly, m) ELSE acc.newly]

AssignMedoid(ents, cluster, gc, acc, m) ==
    AssignCluster(ents, cluster, gc, acc, m, CanonicalId(ents, m, gc, acc.newly))

\* The loop over the clusters: acc.resolved maps a position of
\* state["entities"] to the canonical id given to it, acc.newly lists the
\* medoids recorded in newly_created_canonicals.
RECURSIVE AssignClusters(_, _, _, _)
AssignClusters(ents, clusters, gc, acc) ==
    IF clusters = <<>> THEN acc
    ELSE AssignClusters(ents, Tail(clusters), gc,
             AssignMedoid(ents, Head(clusters), gc, acc,
                          Medoid(ents, Head(clusters))))

\* resolved_id_map: entity id -> canonical id.
ResolvedIdMap(ents, resolved) ==
    [id \in {ents[i].id : i \in {j \in 1..Len(ents) : resolved[j] # None}} |->
        Val(resolved[MaxOf({i \in 1..Len(ents) : ents[i].id = id /\ resolved[i] # None})])]

\* A rewriting of the subject alone.
ReindexSubject(t, rmap) ==
    [t EXCEPT !.subject_id = IF @ \in DOMAIN rmap THEN rmap[@] ELSE @]

Reindex(t, rmap) ==
    [t EXCEPT !.subject_id = IF @ \in DOMAIN rmap THEN rmap[@] ELSE @,
              !.object_id = IF @ \in DOMAIN rmap THEN rmap[@] ELSE @]

\* The rows inserted for newly_created_canonicals.
NewRows(ents, newly) ==
    [k \in 1..Len(newly) |->
        [id |-> ents[newly[k]].id,
         name |-> ents[newly[k]].name,
         type |-> ents[newly[k]].type,
         description |-> ents[newly[k]].description,
         is_canonical |-> 1]]

ReindexAll(trips, rmap) == [k \in 1..Len(trips) |-> Reindex(trips[k], rmap)]

ResolveResult(ents, trips, acc) ==
    [entities |-> [i \in 1..Len(ents) |->
                      IF acc.resolved[i] # None
                      THEN [ents[i] EXCEPT !.resolved_id = acc.resolved[i]]
                      ELSE ents[i]],
     triplets |-> ReindexAll(trips, ResolvedIdMap(ents, acc.resolved)),
     rows |-> NewRows(ents, acc.newly)]

\* The run of the function on a state, given the canonicals it read.
ResolveWith(ents, trips, gc) ==
    ResolveResult(ents, trips,
                  AssignClusters(ents, Clusters(ents), gc,
                                 [resolved |-> [i \in 1..Len(ents) |-> None],
                                  newly |-> <<>>]))

\* The state of run r after the function, out being its result.
Resolved(r, out) ==
    /\ entities' = [entities EXCEPT ![r] = out.entities]
    /\ triplets' = [triplets EXCEPT ![r] = out.triplets]
    /\ db' = db \o out.rows
    /\ pc' = [pc EXCEPT ![r] = "resolved"]

\* The SELECT at the head of the function.
ResolveRead(r) ==
    /\ pc[r] = "extracted"
    /\ global_canonicals' = [global_canonicals EXCEPT ![r] = ReadCanonicals(db)]
    /\ pc' = [pc EXCEPT ![r] = "resolving"]
    /\ UNCHANGED outside
    /\ UNCHANGED <<db, nextId, entities, triplets, temporal_events, graph,
                   passes, consulted, before>>

\* Clustering, reindexing and the INSERT of the new canonicals, from the
\* canonicals read before.
ResolveWrite(r) ==
    /\ pc[r] = "resolving"
    /\ Resolved(r, ResolveWith(entities[r], triplets[r], global_canonicals[r]))
    /\ UNCHANGED outside
    /\ UNCHANGED <<nextId, temporal_events, global_canonicals, graph, passes,
                   consulted, before>>

\* The function run without another run in between.
Resolve(r) ==
    /\ pc[r] = "extracted"
    /\ global_canonicals' = [global_canonicals EXCEPT ![r] = ReadCanonicals(db)]
    /\ Resolved(r, ResolveWith(entities[r], triplets[r], ReadCanonicals(db)))
    /\ UNCHANGED outside
    /\ UNCHANGED <<nextId, temporal_events, graph, passes, consulted, before>>

(***************************************************************************)
(* invalidate_events_in_state.                                              *)
(***************************************************************************)
\* embeddings.embed_documents: the vector of a statement.  Statements on one
\* topic get vectors that point the same way.
Embed(statement) ==
    CASE statement = "Lisa Su is CEO" -> <<1, 0>>
      [] statement = "Victor Peng became CEO" -> <<1, 1>>
      [] statement = "AMD sells GPUs" -> <<0, 1>>
      [] OTHER -> <<0, 0>>

Dot(u, v) == SumSeq([i \in 1..Len(u) |-> u[i] * v[i]])

\* 1 - cosine(u, v) > 0.5, that is u.v / (|u| |v|) > CosNum / CosDen; a zero
\* vector gives nan, which is above nothing.
CosNum == 1
CosDen == 2
AboveHalf(uv, uu, vv) ==
    /\ uu > 0 /\ vv > 0
    /\ uv > 0
    /\ CosDen * CosDen * uv * uv > CosNum * CosNum * uu * vv

Similar(u, v) == AboveHalf(Dot(u, v), Dot(u, u), Dot(v, v))

WithEmbeddings(evs) ==
    [i \in 1..Len(evs) |-> [evs[i] EXCEPT !.embedding = Embed(evs[i].statement)]]

\* A loop that would skip the non-dynamic events only.
IsPrimaryAgain(e1) == e1.temporal_type = "DYNAMIC"

\* The events the loop does not skip.
IsPrimary(e1) == e1.temporal_type = "DYNAMIC" /\ ~IsSet(e1.invalid_at)

\* A comprehension without the test on the order of the dates.
IsCandidateAnyDate(evs, i, j) ==
    /\ j # i
    /\ evs[j].statement_type = "FACT"
    /\ IsSet(evs[j].valid_at) /\ IsSet(evs[i].valid_at)
    /\ Similar(evs[i].embedding, evs[j].embedding)

\* A comprehension without the test j != i.
IsCandidateSelf(evs, i, j) ==
    /\ evs[j].statement_type = "FACT"
    /\ IsSet(evs[j].valid_at) /\ IsSet(evs[i].valid_at)
    /\ Val(evs[j].valid_at) >= Val(evs[i].valid_at)
    /\ Similar(evs[i].embedding, evs[j].embedding)

\* The test of the list comprehension that builds cands.
IsCandidate(evs, i, j) ==
    /\ j # i
    /\ evs[j].statement_type = "FACT"
    /\ IsSet(evs[j].valid_at) /\ IsSet(evs[i].valid_at)
    /\ Val(evs[j].valid_at) >= Val(evs[i].valid_at)
    /\ Similar(evs[i].embedding, evs[j].embedding)

Cands(evs, i) ==
    IF IsPrimary(evs[i])
    THEN SelectSeq(Indexes(Len(evs)), LAMBDA j : IsCandidate(evs, i, j))
    ELSE <<>>

\* The pairs (primary, candidate) the oracle is asked about in one pass.
Consultations(evs) ==
    {p \in (1..Len(evs)) \X (1..Len(evs)) :
        IsPrimary(evs[p[1]]) /\ IsCandidate(evs, p[1], p[2])}

\* r.content.strip().lower() == "true"
SaysTrue(content) == Lower(Strip(content)) = <<"t", "r", "u", "e">>

\* A comparison that would let a candidate of the same date replace the
\* update recorded so far.
ReplacesOnTie(c, upd) == upd = None \/ Val(c.valid_at) <= Val(Val(upd).invalid_at)

\* Whether candidate c replaces the update recorded so far for the primary.
Replaces(c, upd) == upd = None \/ Val(c.valid_at) < Val(Val(upd).invalid_at)

\* One iteration of the loop over zip(cands, results): candidate c with the
\* oracle's answer r.
Record(c, r, upd) ==
    IF SaysTrue(r) /\ Replaces(c, upd)
    THEN Some([invalid_at |-> c.valid_at, invalidated_by |-> c.id])
    ELSE upd

\* The loop over zip(cands, results): the update recorded for primary i.
RECURSIVE RecordEarliest(_, _, _, _, _)
RecordEarliest(evs, i, cands, answers, upd) ==
    IF cands = <<>> THEN upd
    ELSE RecordEarliest(evs, i, Tail(cands), answers,
                        Record(evs[Head(cands)], answers[<<i, Head(cands)>>], upd))

\* updates, by position of the primary.
Updates(evs, answers) ==
    [i \in 1..Len(evs) |-> RecordEarliest(evs, i, Cands(evs, i), answers, None)]

\* The loop that applies updates to the events.
ApplyUpdate(e, upd) ==
    IF upd = None THEN e
    ELSE [e EXCEPT !.invalid_at = Val(upd).invalid_at,
                   !.invalidated_by = Some(Val(upd).invalidated_by)]

ApplyUpdates(evs, updates) ==
    [i \in 1..Len(evs) |-> ApplyUpdate(evs[i], updates[i])]

OracleContents == {<<"T", "r", "u", "e">>, <<"F", "a", "l", "s", "e">>}

\* Recorded for the consultation at which the oracle raised.
Raised == <<"r", "a", "i", "s", "e", "d">>

\* One pass.  Either every consultation returns, or a call of the oracle
\* raises: nothing in the function catches it, so the pass ends there with
\* the embeddings set and no update applied.
InvalidatePass(r, evs, asked) ==
    /\ before' = [before EXCEPT ![r] = evs]
    /\ \/ \E answers \in [asked -> OracleContents] :
            /\ temporal_events' = [temporal_events EXCEPT ![r] =
                                      ApplyUpdates(evs, Updates(evs, answers))]
            /\ consulted' = [consulted EXCEPT ![r] = answers]
            /\ pc' = [pc EXCEPT ![r] = "invalidated"]
       \/ \E p \in asked :
            /\ temporal_events' = [temporal_events EXCEPT ![r] = evs]
            /\ consulted' = [consulted EXCEPT ![r] = [q \in {p} |-> Raised]]
            /\ pc' = [pc EXCEPT ![r] = "failed"]

Invalidate(r) ==
    /\ pc[r] \in {"resolved", "invalidated"}
    /\ passes[r] < MaxPasses
    /\ InvalidatePass(r, WithEmbeddings(temporal_events[r]),
                      Consultations(WithEmbeddings(temporal_events[r])))
    /\ passes' = [passes EXCEPT ![r] = @ + 1]
    /\ UNCHANGED outside
    /\ UNCHANGED <<db, nextId, entities, triplets, global_canonicals, graph>>

(***************************************************************************)
(* build_graph_from_state.                                                  *)
(***************************************************************************)
\* entity_map: id -> entity (of the entities of this state).
entity_map(ents) ==
    [id \in {ents[i].id : i \in 1..Len(ents)} |->
        ents[MaxOf({i \in 1..Len(ents) : ents[i].id = id})]]

canonical_ids(ents) ==
    {IF IsSet(ents[i].resolved_id) THEN Val(ents[i].resolved_id) ELSE ents[i].id :
        i \in 1..Len(ents)}

\* The nodes added: a canonical id gets a node when entity_map knows it.
NodesFrom(ids, em) ==
    [id \in ids \cap DOMAIN em |->
        [name |-> em[id].name, type |-> em[id].type,
         description |-> em[id].description]]

Nodes(ents) == NodesFrom(canonical_ids(ents), entity_map(ents))

\* next(ev for ev in temporal_events if triplet.id in ev.triplets): None, or
\* the position of the first event that lists the triplet.
ParentEvent(evs, t) ==
    LET owners == {i \in 1..Len(evs) : t.id \in Range(evs[i].triplets)}
    IN  IF owners = {} THEN None ELSE Some(CHOOSE i \in owners : \A j \in owners : i <= j)

EdgeKey(t) == <<t.subject_id, t.object_id, t.predicate>>

EdgeAttrs(t, ev) ==
    [predicate |-> t.predicate, value |-> t.value,
     statement |-> ev.statement, valid_at |-> ev.valid_at,
     invalid_at |-> ev.invalid_at, statement_type |-> ev.statement_type]

\* MultiDiGraph.add_edge(u, v, key=k, **attrs): a new edge for a new key; for
\* a key the pair already has, the attributes of that edge are updated.
add_edge(edges, key, attrs) ==
    [k \in DOMAIN edges \cup {key} |-> IF k = key THEN attrs ELSE edges[k]]

\* An iteration that adds the edge of every owned triplet, as add_edge does
\* for endpoints that are not nodes.
AddTripletUnguarded(t, parent, evs, nodes, edges) ==
    IF parent # None
    THEN add_edge(edges, EdgeKey(t), EdgeAttrs(t, evs[Val(parent)]))
    ELSE edges

\* One iteration of the loop over the triplets, parent being the owning
\* event of t or None.
AddTriplet(t, parent, evs, nodes, edges) ==
    IF /\ parent # None
       /\ t.subject_id \in DOMAIN nodes
       /\ t.object_id \in DOMAIN nodes
    THEN add_edge(edges, EdgeKey(t), EdgeAttrs(t, evs[Val(parent)]))
    ELSE edges

\* The loop over the triplets.
RECURSIVE AddEdges(_, _, _, _)
AddEdges(trips, evs, nodes, edges) ==
    IF trips = <<>> THEN edges
    ELSE AddEdges(Tail(trips), evs, nodes,
                  AddTriplet(Head(trips), ParentEvent(evs, Head(trips)),
                             evs, nodes, edges))

GraphOn(nodes, trips, evs) ==
    [nodes |-> nodes, edges |-> AddEdges(trips, evs, nodes, EmptyMap)]

BuildGraphFrom(ents, trips, evs) == GraphOn(Nodes(ents), trips, evs)

\* What the function tells about the triplets it leaves out: the ids it
\* names.  Both skips are silent, and the two lines printed are counts.
SkippedReported(ents, trips, evs) == {}

\* A build that takes the triplets out of the state as it adds them.
BuildGraphConsuming(r) ==
    /\ pc[r] = "invalidated"
    /\ graph' = [graph EXCEPT ![r] =
                    BuildGraphFrom(entities[r], triplets[r], temporal_events[r])]
    /\ pc' = [pc EXCEPT ![r] = "built"]
    /\ triplets' = [triplets EXCEPT ![r] = <<>>]
    /\ UNCHANGED outside
    /\ UNCHANGED <<db, nextId, entities, temporal_events,
                   global_canonicals, passes, consulted, before>>

BuildGraph(r) ==
    /\ pc[r] = "invalidated"
    /\ graph' = [graph EXCEPT ![r] =
                    BuildGraphFrom(entities[r], triplets[r], temporal_events[r])]
    /\ pc' = [pc EXCEPT ![r] = "built"]
    /\ UNCHANGED outside
    /\ UNCHANGED <<db, nextId, entities, triplets, temporal_events,
                   global_canonicals, passes, consulted, before>>

(***************************************************************************)
(* Inputs: what the extraction chains may return for the statements of a    *)
(* batch.                                                                   *)
(***************************************************************************)
Y2023 == <<"2", "0", "2", "3">>
Y2024 == <<"2", "0", "2", "4">>

Texts == {"Lisa Su is CEO", "Victor Peng became CEO", "AMD sells GPUs"}

\* Statements without entities, for the life cycle of the events.  The
\* longer the batch, the smaller the set its statements are drawn from.
EventStatements(k) ==
    IF k <= 1 THEN
        [statement : Texts,
         statement_type : StatementType,
         temporal_type : TemporalType,
         valid_at : {None, Some(<<>>), Some(Y2023), Some(Y2024)},
         invalid_at : {None, Some(Y2023), Some(Y2024)},
         entities : {<<>>}, triplets : {<<>>}]
    ELSE IF k = 2 THEN
        [statement : {"Lisa Su is CEO", "AMD sells GPUs"},
         statement_type : {"FACT", "OPINION"},
         temporal_type : {"DYNAMIC", "STATIC"},
         valid_at : {None, Some(Y2023), Some(Y2024)},
         invalid_at : {None, Some(Y2023)},
         entities : {<<>>}, triplets : {<<>>}]
    ELSE IF k = 3 THEN
        [statement : {"Lisa Su is CEO", "AMD sells GPUs"},
         statement_type : {"FACT", "OPINION"},
         temporal_type : {"DYNAMIC", "STATIC"},
         valid_at : {Some(Y2023), Some(Y2024)},
         invalid_at : {None},
         entities : {<<>>}, triplets : {<<>>}]
    ELSE
        [statement : {"Lisa Su is CEO"},
         statement_type : {"FACT"},
         temporal_type : {"DYNAMIC", "STATIC"},
         valid_at : {Some(Y2023)},
         invalid_at : {None},
         entities : {<<>>}, triplets : {<<>>}]

EventBatches == UNION {[1..k -> EventStatements(k)] : k \in 1..MaxStmts}

(***************************************************************************)
(* Spec: one ingestion run, extract -> resolve -> invalidate (any number of *)
(* passes up to MaxPasses) -> build.                                        *)
(***************************************************************************)
Next ==
    \/ Extract(1, EventBatches)
    \/ Resolve(1)
    \/ Invalidate(1)
    \/ BuildGraph(1)

Spec == Init /\ [][Next]_vars

(***************************************************************************)
(* SpecGraph: ingestion runs one after the other on the same table, each    *)
(* followed by build_graph_from_state; the statements carry entities and    *)
(* triplets.                                                                *)
(***************************************************************************)
AMD == <<"A", "M", "D">>
TSMC == <<"T", "S", "M", "C">>

RawEntities(idx, names, types) ==
    [entity_idx : {idx}, name : names, type : types, description : {""}]

\* One or two raw entities, indexed 0 and 1.
EntityLists(names, types) ==
    {<<e>> : e \in RawEntities(0, names, types)}
        \cup {<<e, f>> : e \in RawEntities(0, names, types),
                         f \in RawEntities(1, names, types)}

\* No triplet, or one triplet; index 1 is the index of no entity when the
\* statement has one entity.
TripletLists ==
    {<<>>} \cup
    {<<t>> : t \in [subject_id : {0, 1}, object_id : {0, 1},
                    predicate : {"HOLDS_ROLE", "IS_A"},
                    subject_name : {""}, object_name : {""}, value : {None}]}

GraphStatements ==
    [statement : {"Lisa Su is CEO", "AMD sells GPUs"},
     statement_type : {"FACT"},
     temporal_type : {"DYNAMIC"},
     valid_at : {Some(Y2023)},
     invalid_at : {None},
     entities : EntityLists({AMD, TSMC}, {"Organization"}),
     triplets : TripletLists]

\* The statements of all the runs so far.
StatementsSoFar == SumSeq([r \in Runs |-> Len(temporal_events[r])])

GraphBatches ==
    UNION {[1..k -> GraphStatements] : k \in 1..(MaxGraphStmts - StatementsSoFar)}

Finished(r) == pc[r] \in {"built", "failed"}

\* Run r starts when the runs before it are over.
ExtractInTurn(r) ==
    /\ \A q \in 1..(r - 1) : Finished(q)
    /\ Extract(r, GraphBatches)

NextGraph ==
    \E r \in Runs :
        \/ ExtractInTurn(r)
        \/ Resolve(r)
        \/ Invalidate(r)
        \/ BuildGraph(r)

SpecGraph == Init /\ [][NextGraph]_vars

(***************************************************************************)
(* SpecRace: the runs resolve at the same time; between the SELECT of a run *)
(* and its INSERT the other runs may read and write the table.              *)
(***************************************************************************)
RaceStatements ==
    [statement : {"Lisa Su is CEO"},
     statement_type : {"FACT"},
     temporal_type : {"STATIC"},
     valid_at : {Some(Y2023)},
     invalid_at : {None},
     entities : EntityLists({AMD, TSMC}, {"Organization", "Person"}),
     triplets : {<<>>}]

RaceBatches == [1..1 -> RaceStatements]

NextRace ==
    \E r \in Runs :
        \/ Extract(r, RaceBatches)
        \/ ResolveRead(r)
        \/ ResolveWrite(r)

SpecRace == Init /\ [][NextRace]_vars

(***************************************************************************)
(* SpecResolve: ingestion runs one after the other on the same table, up to *)
(* resolve_entities_in_state; the statement of a run mentions entities      *)
(* whose names are near each other: AB and BC are both within ABC, and      *)
(* are not near each other.                                                 *)
(***************************************************************************)
AB == <<"A", "B">>
ABC == <<"A", "B", "C">>
BC == <<"B", "C">>

ResolveNames == {AB, ABC, BC}
ResolveTypes == {"Organization", "Person"}

\* The lists of 1 to n raw entities, indexed by position.
MentionLists(n) ==
    UNION {{[i \in 1..k |-> [entity_idx |-> i - 1, name |-> f[i][1],
                             type |-> f[i][2], description |-> ""]] :
                f \in [1..k -> ResolveNames \X ResolveTypes]} : k \in 1..n}

ResolveStatements(n) ==
    [statement : {"AMD sells GPUs"},
     statement_type : {"FACT"},
     temporal_type : {"STATIC"},
     valid_at : {Some(Y2023)},
     invalid_at : {None},
     entities : MentionLists(n),
     triplets : {<<>>,
                 <<[subject_id |-> 0, object_id |-> 1, predicate |-> "HOLDS_ROLE",
                    subject_name |-> "", object_name |-> "", value |-> None]>>}]

\* The entities of all the runs so far.
MentionsSoFar == SumSeq([r \in Runs |-> Len(entities[r])])

Min2(a, b) == IF a <= b THEN a ELSE b

ResolveBatches ==
    [1..1 -> ResolveStatements(Min2(MaxBatchMentions, MaxMentions - MentionsSoFar))]

\* Run r starts when the runs before it have resolved.
ExtractAfterResolve(r) ==
    /\ \A q \in 1..(r - 1) : pc[q] = "resolved"
    /\ Extract(r, ResolveBatches)

NextResolve ==
    \E r \in Runs :
        \/ ExtractAfterResolve(r)
        \/ Resolve(r)

SpecResolve == Init /\ [][NextResolve]_vars

(***************************************************************************)
(* SpecCancel: invalidate_events_in_state statement by statement.  The pass *)
(* embeds, asks the oracle and collects the updates; then the last loop     *)
(* writes, event by event, invalid_at and then invalidated_by.  The run may *)
(* be interrupted between any two statements, and the pass may be run       *)
(* again on the events the interruption left.                               *)
(***************************************************************************)
\* Lines 850-883: the embeddings are set and the updates are collected.
InvalidateStart(r) ==
    /\ pc[r] \in {"resolved", "invalidated", "cancelled"}
    /\ passes[r] < MaxPasses
    /\ \E answers \in [Consultations(WithEmbeddings(temporal_events[r])) -> OracleContents] :
           consulted' = [consulted EXCEPT ![r] = answers]
    /\ before' = [before EXCEPT ![r] = WithEmbeddings(temporal_events[r])]
    /\ temporal_events' = [temporal_events EXCEPT ![r] = WithEmbeddings(@)]
    /\ pc' = [pc EXCEPT ![r] = "applying"]
    /\ passes' = [passes EXCEPT ![r] = @ + 1]
    /\ UNCHANGED outside
    /\ UNCHANGED <<db, nextId, entities, triplets, global_canonicals, graph>>

\* The events of the last loop that still miss a write.
Unwritten(evs, updates) ==
    {i \in 1..Len(evs) : updates[i] # None /\ ~IsSet(evs[i].invalidated_by)}

\* The event the last loop is at.
NextWrite(evs, updates) ==
    CHOOSE i \in Unwritten(evs, updates) : \A j \in Unwritten(evs, updates) : i <= j

WriteField(r, evs, updates, i) ==
    /\ temporal_events' = [temporal_events EXCEPT ![r] =
           [evs EXCEPT ![i] =
               IF evs[i].invalid_at = Val(updates[i]).invalid_at
               THEN [@ EXCEPT !.invalidated_by = Some(Val(updates[i]).invalidated_by)]
               ELSE [@ EXCEPT !.invalid_at = Val(updates[i]).invalid_at]]]
    /\ UNCHANGED outside
    /\ UNCHANGED <<db, nextId, pc, entities, triplets, global_canonicals, graph,
                   passes, consulted, before>>

WriteNext(r, evs, updates) ==
    /\ Unwritten(evs, updates) # {}
    /\ WriteField(r, evs, updates, NextWrite(evs, updates))

\* Line 888 or line 889, for the event the loop is at.
Write(r) ==
    /\ pc[r] = "applying"
    /\ WriteNext(r, temporal_events[r], Updates(before[r], consulted[r]))

\* Line 891.
InvalidateReturn(r) ==
    /\ pc[r] = "applying"
    /\ Unwritten(temporal_events[r], Updates(before[r], consulted[r])) = {}
    /\ pc' = [pc EXCEPT ![r] = "invalidated"]
    /\ UNCHANGED outside
    /\ UNCHANGED <<db, nextId, entities, triplets, temporal_events,
                   global_canonicals, graph, passes, consulted, before>>

\* The run is interrupted inside the function.
Cancel(r) ==
    /\ pc[r] = "applying"
    /\ pc' = [pc EXCEPT ![r] = "cancelled"]
    /\ UNCHANGED outside
    /\ UNCHANGED <<db, nextId, entities, triplets, temporal_events,
                   global_canonicals, graph, passes, consulted, before>>

CancelStatements ==
    [statement : {"Lisa Su is CEO"},
     statement_type : {"FACT", "OPINION"},
     temporal_type : {"DYNAMIC", "STATIC"},
     valid_at : {Some(Y2023), Some(Y2024)},
     invalid_at : {None},
     entities : {<<>>}, triplets : {<<>>}]

CancelBatches == UNION {[1..k -> CancelStatements] : k \in 1..MaxStmts}

NextCancel ==
    \/ Extract(1, CancelBatches)
    \/ Resolve(1)
    \/ InvalidateStart(1)
    \/ Write(1)
    \/ InvalidateReturn(1)
    \/ Cancel(1)

SpecCancel == Init /\ [][NextCancel]_vars

(***************************************************************************)
(* Properties of invalidate_events_in_state and of the events, under Spec.  *)
(***************************************************************************)
Returned(r) == pc[r] \in {"invalidated", "built"}

EventsOf(r) == 1..Len(temporal_events[r])

\* C4: a consultation of the oracle that raises counts as a negative answer
\* for its pair: the pass does not fail and no exception reaches the pipeline.
OracleErrorIsNegative ==
    \A r \in Runs :
        (\E p \in DOMAIN consulted[r] : consulted[r][p] = Raised) => Returned(r)

\* The filter of the candidates of event i among the events of the last pass.
PassesFilter(r, i, j) ==
    /\ j # i
    /\ before[r][j].statement_type = "FACT"
    /\ IsSet(before[r][i].valid_at)
    /\ IsSet(before[r][j].valid_at)
    /\ Val(before[r][j].valid_at) >= Val(before[r][i].valid_at)
    /\ Similar(before[r][i].embedding, before[r][j].embedding)

Open(r, i) ==
    before[r][i].temporal_type = "DYNAMIC" /\ ~IsSet(before[r][i].invalid_at)

\* The events that pass the filter for i and that the oracle confirmed.
Confirmed(r, i) ==
    {j \in 1..Len(before[r]) :
        /\ PassesFilter(r, i, j)
        /\ <<i, j>> \in DOMAIN consulted[r]
        /\ SaysTrue(consulted[r][<<i, j>>])}

Earlier(r, j, k) ==
    \/ Val(before[r][j].valid_at) < Val(before[r][k].valid_at)
    \/ Val(before[r][j].valid_at) = Val(before[r][k].valid_at) /\ j <= k

\* The earliest of a set of events, the first in the sequence on a tie.
Earliest(r, among) == CHOOSE j \in among : \A k \in among : Earlier(r, j, k)

Winner(r, i) == Earliest(r, Confirmed(r, i))

\* Event e as invalidated by event w.
InvalidatedBy(e, w) ==
    [e EXCEPT !.invalid_at = w.valid_at, !.invalidated_by = Some(w.id)]

\* What the pass makes of event i, given the events confirmed for it.
Outcome(r, i, confirmed) ==
    IF confirmed = {} THEN before[r][i]
    ELSE InvalidatedBy(before[r][i], before[r][Earliest(r, confirmed)])

\* The pairs the oracle is to be asked about.
ToAsk(r, n) ==
    {p \in (1..n) \X (1..n) : Open(r, p[1]) /\ PassesFilter(r, p[1], p[2])}

\* C5: after a pass that returns, the oracle has been asked about exactly
\* the pairs (e1, e2) with e1 DYNAMIC and not yet invalidated and e2 passing
\* the filter; every such e1 carries the valid_at and the id of the confirmed
\* event of earliest valid_at, the first in the sequence on a tie, and is
\* unchanged when no event is confirmed.
WinnerIsEarliestConfirmed ==
    \A r \in Runs :
        Returned(r) =>
            /\ DOMAIN consulted[r] = ToAsk(r, Len(before[r]))
            /\ \A i \in 1..Len(before[r]) :
                   Open(r, i) =>
                       temporal_events[r][i] = Outcome(r, i, Confirmed(r, i))

\* Two confirmed events of the same earliest date: the first one has won.
WinnerOfATie ==
    \E r \in Runs :
        /\ Returned(r)
        /\ \E i \in 1..Len(before[r]) :
               /\ Open(r, i)
               /\ \E j \in Confirmed(r, i), k \in Confirmed(r, i) :
                      /\ j < k
                      /\ before[r][j].valid_at = before[r][k].valid_at
                      /\ Winner(r, i) = j
                      /\ temporal_events[r][i].invalidated_by = Some(before[r][j].id)

\* C6: for events A and B with A.invalidated_by = B.id, B.valid_at >=
\* A.valid_at and B is a FACT.
InvalidatorIsLaterFact ==
    \A r \in Runs :
        \A a \in EventsOf(r), b \in EventsOf(r) :
            temporal_events[r][a].invalidated_by = Some(temporal_events[r][b].id) =>
                /\ IsSet(temporal_events[r][a].valid_at)
                /\ IsSet(temporal_events[r][b].valid_at)
                /\ Val(temporal_events[r][b].valid_at) >=
                       Val(temporal_events[r][a].valid_at)
                /\ temporal_events[r][b].statement_type = "FACT"

\* An event invalidated by a fact of a later date.
InvalidatedByLaterFact ==
    \E r \in Runs :
        \E a \in EventsOf(r), b \in EventsOf(r) :
            /\ temporal_events[r][a].invalidated_by = Some(temporal_events[r][b].id)
            /\ Val(temporal_events[r][b].valid_at) > Val(temporal_events[r][a].valid_at)

\* C7: an event whose invalidated_by is set has invalid_at set, and
\* invalidated_by is the id of another event of the batch, never its own.
InvalidatedByAnother ==
    \A r \in Runs :
        \A a \in EventsOf(r) :
            IsSet(temporal_events[r][a].invalidated_by) =>
                /\ IsSet(temporal_events[r][a].invalid_at)
                /\ \E b \in EventsOf(r) \ {a} :
                       temporal_events[r][a].invalidated_by =
                           Some(temporal_events[r][b].id)
                /\ temporal_events[r][a].invalidated_by # Some(temporal_events[r][a].id)

\* An event invalidated by an event that comes before it in the batch, of
\* the same date.
InvalidatedByEarlierInBatch ==
    \E r \in Runs :
        \E a \in EventsOf(r), b \in EventsOf(r) :
            /\ b < a
            /\ temporal_events[r][a].invalidated_by = Some(temporal_events[r][b].id)
            /\ temporal_events[r][a].invalid_at = temporal_events[r][a].valid_at

\* C8: no step clears or changes invalid_at or invalidated_by of an event
\* whose invalid_at is set, whatever the oracle answers in further passes.
WriteOnce ==
    [][\A r \in Runs :
          \A i \in EventsOf(r) :
              IsSet(temporal_events[r][i].invalid_at) =>
                  /\ i <= Len(temporal_events'[r])
                  /\ temporal_events'[r][i].invalid_at = temporal_events[r][i].invalid_at
                  /\ temporal_events'[r][i].invalidated_by =
                         temporal_events[r][i].invalidated_by]_vars

\* A second pass that found an invalidated event and in which the oracle
\* confirmed a candidate of another event.
SecondPassAfterInvalidation ==
    \E r \in Runs :
        /\ passes[r] >= 2
        /\ Returned(r)
        /\ \E i \in 1..Len(before[r]) : IsSet(before[r][i].invalidated_by)
        /\ \E p \in DOMAIN consulted[r] : SaysTrue(consulted[r][p])

\* C9: every event that is not DYNAMIC has invalid_at unset, in every state.
OnlyDynamicInvalid ==
    \A r \in Runs :
        \A i \in EventsOf(r) :
            temporal_events[r][i].temporal_type # "DYNAMIC" =>
                ~IsSet(temporal_events[r][i].invalid_at)

\* C10: every event whose invalid_at is set has invalid_at >= valid_at, in
\* every state.
InvalidNotBeforeValid ==
    \A r \in Runs :
        \A i \in EventsOf(r) :
            IsSet(temporal_events[r][i].invalid_at) =>
                /\ IsSet(temporal_events[r][i].valid_at)
                /\ Val(temporal_events[r][i].invalid_at) >=
                       Val(temporal_events[r][i].valid_at)

(***************************************************************************)
(* Properties of the graph, under SpecGraph.                                *)
(***************************************************************************)
CanonicalOf(e) == IF IsSet(e.resolved_id) THEN Val(e.resolved_id) ELSE e.id

Attestation(ev) ==
    [statement |-> ev.statement, valid_at |-> ev.valid_at,
     invalid_at |-> ev.invalid_at, statement_type |-> ev.statement_type]

\* The triplets of run r that have an owning event.
Owned(r) ==
    {k \in 1..Len(triplets[r]) :
        \E i \in EventsOf(r) : triplets[r][k].id \in Range(temporal_events[r][i].triplets)}

Owner(r, k) ==
    CHOOSE i \in EventsOf(r) : triplets[r][k].id \in Range(temporal_events[r][i].triplets)

\* C2: in the graph built, the edge of a key (subject_id, object_id,
\* predicate) carries the attestation of every owned triplet of that key
\* whose endpoints are nodes: a later triplet of the key does not replace the
\* attestation of an earlier one.
EdgeKeepsAttestations ==
    \A r \in Runs :
        pc[r] = "built" =>
            \A k \in Owned(r) :
                (/\ triplets[r][k].subject_id \in DOMAIN graph[r].nodes
                 /\ triplets[r][k].object_id \in DOMAIN graph[r].nodes) =>
                    /\ EdgeKey(triplets[r][k]) \in DOMAIN graph[r].edges
                    /\ Attestation(graph[r].edges[EdgeKey(triplets[r][k])]) =
                           Attestation(temporal_events[r][Owner(r, k)])

\* C3: in the graph built, the canonical id of every entity of the batch is
\* a node, also when the id was persisted by an earlier batch.
CanonicalsAreNodes ==
    \A r \in Runs :
        pc[r] = "built" =>
            \A i \in 1..Len(entities[r]) :
                CanonicalOf(entities[r][i]) \in DOMAIN graph[r].nodes

(***************************************************************************)
(* Property of the canonical entities table, under SpecRace.                *)
(***************************************************************************)
\* C1: the table holds one canonical row for a name, however the runs
\* that resolve a cluster to the name overlap.
OneRowPerName ==
    \A i \in DOMAIN db, j \in DOMAIN db : db[i].name = db[j].name => i = j

(***************************************************************************)
(* Property of an interrupted pass, under SpecCancel.                       *)
(***************************************************************************)
\* C11: wherever a pass is interrupted, no event is left with an invalid_at
\* written by the pass while its invalidated_by is still unset.
NoHalfInvalidatedEvent ==
    \A r \in Runs :
        pc[r] = "cancelled" =>
            \A i \in 1..Len(before[r]) :
                (/\ ~IsSet(before[r][i].invalid_at)
                 /\ IsSet(temporal_events[r][i].invalid_at))
                    => IsSet(temporal_events[r][i].invalidated_by)

(***************************************************************************)
(* Properties of resolve_entities_in_state, under SpecResolve.              *)
(***************************************************************************)
ClustersWith(cl, i) == {k \in 1..Len(cl) : i \in Range(cl[k])}

\* cl partitions the positions of ents, each part being of one type and
\* resolved to one id.
PartitionByType(ents, cl) ==
    /\ \A i \in 1..Len(ents) : Cardinality(ClustersWith(cl, i)) = 1
    /\ \A k \in 1..Len(cl) :
           /\ Len(cl[k]) = Cardinality(Range(cl[k]))
           /\ Range(cl[k]) \subseteq 1..Len(ents)
           /\ \A a \in Range(cl[k]), b \in Range(cl[k]) :
                  /\ ents[a].type = ents[b].type
                  /\ ents[a].resolved_id = ents[b].resolved_id

\* C12: the clusters formed for the entities of a run partition them: every
\* entity is in exactly one cluster, and a cluster holds entities of one type.
ClustersPartitionEntities ==
    \A r \in Runs :
        pc[r] = "resolved" => PartitionByType(entities[r], Clusters(entities[r]))

\* A cluster of two entities beside an entity of the same name as one of
\* them and of another type.
ClusterBesideOtherType ==
    \E r \in Runs :
        /\ pc[r] = "resolved"
        /\ \E k \in 1..Len(Clusters(entities[r])) : Len(Clusters(entities[r])[k]) = 2
        /\ \E a \in 1..Len(entities[r]), b \in 1..Len(entities[r]) :
               /\ entities[r][a].name = entities[r][b].name
               /\ entities[r][a].type # entities[r][b].type

\* C13: two entities of different type, of one run or of two, never have
\* the same resolved_id.
TypesKeepIdentitiesApart ==
    \A r \in Runs, q \in Runs :
        \A a \in 1..Len(entities[r]), b \in 1..Len(entities[q]) :
            (/\ IsSet(entities[r][a].resolved_id)
             /\ IsSet(entities[q][b].resolved_id)
             /\ entities[r][a].type # entities[q][b].type)
                => entities[r][a].resolved_id # entities[q][b].resolved_id

\* The medoids of the clusters, in the order of the clusters.
MedoidsOf(ents, cl) == [k \in 1..Len(cl) |-> Medoid(ents, cl[k])]

\* The clusters before k whose medoid has the name of the medoid of k.
EarlierOfName(ents, med, k) ==
    {j \in 1..(k - 1) : ents[med[j]].name = ents[med[k]].name}

Stored(ents, med, gc, k) == ents[med[k]].name \in DOMAIN gc

Coined(ents, med, gc, k) ==
    ~Stored(ents, med, gc, k) /\ EarlierOfName(ents, med, k) # {}

Minted(ents, med, gc, k) ==
    ~Stored(ents, med, gc, k) /\ EarlierOfName(ents, med, k) = {}

FirstOfName(ents, med, k) ==
    CHOOSE j \in EarlierOfName(ents, med, k) :
        \A i \in EarlierOfName(ents, med, k) : j <= i

\* The id the precedence gives to cluster k.
IdByPrecedence(ents, med, gc, k) ==
    IF Stored(ents, med, gc, k) THEN gc[ents[med[k]].name]
    ELSE IF Coined(ents, med, gc, k) THEN ents[med[FirstOfName(ents, med, k)]].id
    ELSE ents[med[k]].id

\* The rows of the table that carry the id of an entity of ents.
RowsOf(ents, rows) ==
    {i \in 1..Len(rows) : \E a \in 1..Len(ents) : rows[i].id = ents[a].id}

FollowsPrecedence(ents, cl, med, gc, rows) ==
    /\ \A k \in 1..Len(cl) :
           /\ \A a \in Range(cl[k]) :
                  ents[a].resolved_id = Some(IdByPrecedence(ents, med, gc, k))
           /\ Minted(ents, med, gc, k) =>
                  Cardinality({i \in 1..Len(rows) :
                                  /\ rows[i].id = ents[med[k]].id
                                  /\ rows[i].name = ents[med[k]].name}) = 1
    /\ Cardinality(RowsOf(ents, rows)) =
           Cardinality({k \in 1..Len(cl) : Minted(ents, med, gc, k)})

\* C14: a cluster whose medoid's name is in the canonicals read from the
\* table gets the stored id and adds no row; else a cluster whose medoid's
\* name was coined by an earlier cluster of the run gets that cluster's id;
\* else it gets the id of its medoid, and the medoid is inserted as exactly
\* one row.
CanonicalIdPrecedence ==
    \A r \in Runs :
        pc[r] = "resolved" =>
            FollowsPrecedence(entities[r], Clusters(entities[r]),
                              MedoidsOf(entities[r], Clusters(entities[r])),
                              global_canonicals[r], db)

AllThreeCases(ents, cl, med, gc) ==
    /\ \E k \in 1..Len(cl) : Stored(ents, med, gc, k)
    /\ \E k \in 1..Len(cl) : Coined(ents, med, gc, k)
    /\ \E k \in 1..Len(cl) : Minted(ents, med, gc, k)

\* A run whose clusters show the three cases of the precedence.
RunWithThreeCases ==
    \E r \in Runs :
        /\ pc[r] = "resolved"
        /\ AllThreeCases(entities[r], Clusters(entities[r]),
                         MedoidsOf(entities[r], Clusters(entities[r])),
                         global_canonicals[r])

\* Runs r and q were given the same entities and triplets, in the same order.
SameInput(r, q) ==
    /\ Len(entities[r]) = Len(entities[q])
    /\ \A i \in 1..Len(entities[r]) :
           /\ entities[r][i].name = entities[q][i].name
           /\ entities[r][i].type = entities[q][i].type
    /\ Len(triplets[r]) = Len(triplets[q])
    /\ \A k \in 1..Len(triplets[r]) : triplets[r][k].predicate = triplets[q][k].predicate

SameOutput(r, q) ==
    /\ \A i \in 1..Len(entities[r]) :
           entities[r][i].resolved_id = entities[q][i].resolved_id
    /\ \A k \in 1..Len(triplets[r]) :
           /\ triplets[r][k].subject_id = triplets[q][k].subject_id
           /\ triplets[r][k].object_id = triplets[q][k].object_id

\* Run q took its ids from the table and inserted no row.
ReusedOnly(q) ==
    /\ RowsOf(entities[q], db) = {}
    /\ \A i \in 1..Len(entities[q]) :
           \E k \in 1..Len(db) : entities[q][i].resolved_id = Some(db[k].id)

\* C15: a run given the input of an earlier run, the table persisting in
\* between, gives every entity the canonical id and every triplet the
\* endpoints of the earlier run, mints no id and inserts no row.
RerunReusesIds ==
    \A r \in Runs, q \in Runs :
        (r < q /\ pc[r] = "resolved" /\ pc[q] = "resolved" /\ SameInput(r, q))
            => SameOutput(r, q) /\ ReusedOnly(q)

\* Two runs on the same two entities of near names and on a triplet between
\* them, the first run having inserted a row.
RerunOfACluster ==
    \E r \in Runs, q \in Runs :
        /\ r < q /\ pc[r] = "resolved" /\ pc[q] = "resolved" /\ SameInput(r, q)
        /\ Len(entities[r]) = 2
        /\ entities[r][1].name # entities[r][2].name
        /\ entities[r][1].resolved_id = entities[r][2].resolved_id
        /\ Len(triplets[q]) = 1
        /\ triplets[q][1].subject_id = triplets[q][1].object_id
        /\ RowsOf(entities[r], db) # {}

\* C16: an entity whose name is the name of a canonical that an earlier run
\* persisted gets the id of that canonical, whatever else is in its batch.
PersistedNameKeepsId ==
    \A r \in Runs :
        pc[r] = "resolved" =>
            \A i \in 1..Len(entities[r]) :
                entities[r][i].name \in DOMAIN global_canonicals[r] =>
                    entities[r][i].resolved_id =
                        Some(global_canonicals[r][entities[r][i].name])

\* The full similarity of entity a summed over the members of a cluster.
SummedRatio(ents, members, a) ==
    SumSeq([k \in 1..Len(members) |->
               Ratio(Lower(ents[a].name), Lower(ents[members[k]].name))])

\* Entity a has the greatest sum of the cluster and is the earliest of the
\* entities that have it.
GreatestAndEarliest(ents, members, a, sum) ==
    \A b \in Range(members) :
        /\ SummedRatio(ents, members, b) <= sum
        /\ b < a => SummedRatio(ents, members, b) < sum

IsTheMedoid(ents, members, a) ==
    GreatestAndEarliest(ents, members, a, SummedRatio(ents, members, a))

\* The cluster is resolved to a canonical of the name of entity a.
NamedAfter(ents, members, a, rows) ==
    \E i \in 1..Len(rows) :
        /\ rows[i].name = ents[a].name
        /\ \A b \in Range(members) : ents[b].resolved_id = Some(rows[i].id)

MedoidNamesCluster(ents, cl, rows) ==
    \A k \in 1..Len(cl) :
        \A a \in Range(cl[k]) :
            IsTheMedoid(ents, cl[k], a) => NamedAfter(ents, cl[k], a, rows)

\* C17: every cluster is resolved to the canonical of the name of its
\* medoid, the member of the greatest summed full similarity to the members
\* of the cluster, the earliest in the input among equals.
CanonicalNameIsMedoidName ==
    \A r \in Runs :
        pc[r] = "resolved" =>
            MedoidNamesCluster(entities[r], Clusters(entities[r]), db)

TieOfTwoNames(ents, cl) ==
    \E k \in 1..Len(cl) :
        /\ Len(cl[k]) = 2
        /\ ents[cl[k][1]].name # ents[cl[k][2]].name
        /\ SummedRatio(ents, cl[k], cl[k][1]) = SummedRatio(ents, cl[k], cl[k][2])
        /\ cl[k][1] < cl[k][2]
        /\ ents[cl[k][1]].resolved_id = Some(ents[cl[k][1]].id)

\* A cluster of two names of equal sums, resolved to the id of the first.
ClusterWithTiedMedoid ==
    \E r \in Runs :
        pc[r] = "resolved" /\ TieOfTwoNames(entities[r], Clusters(entities[r]))

ExactNameClusters(ents, cl) ==
    \A k \in 1..Len(cl) :
        \A a \in Range(cl[k]), b \in Range(cl[k]) : ents[a].name = ents[b].name

OneClusterPerType(ents, cl) ==
    \A a \in 1..Len(ents), b \in 1..Len(ents) :
        ents[a].type = ents[b].type =>
            \E k \in 1..Len(cl) : a \in Range(cl[k]) /\ b \in Range(cl[k])

\* C18: clustered with the threshold 100, the entities of one cluster all
\* have the same name; clustered with the threshold 0, the entities of one
\* type are all in one cluster.
ThresholdExtremes ==
    \A r \in Runs :
        /\ ExactNameClusters(entities[r], ClustersAt(entities[r], 100))
        /\ OneClusterPerType(entities[r], ClustersAt(entities[r], 0))

\* Endpoint `after` is the canonical id of the entity of id `referenced`,
\* and the id of no entity resolved to another id.
CanonicalOfReferenced(ents, referenced, after) ==
    /\ \E i \in 1..Len(ents) : ents[i].id = referenced
    /\ \A i \in 1..Len(ents) :
           /\ ents[i].id = referenced => ents[i].resolved_id = Some(after)
           /\ ents[i].id = after => ents[i].resolved_id = Some(after)

\* C19: resolve_entities_in_state leaves every triplet with, as subject_id
\* and object_id, the resolved_id of the entity the endpoint referenced
\* before; no endpoint holds the id of an entity resolved to another id.
EndpointsBecomeCanonical ==
    [][\A r \in Runs :
          (pc[r] = "extracted" /\ pc'[r] = "resolved") =>
              /\ Len(triplets'[r]) = Len(triplets[r])
              /\ \A k \in 1..Len(triplets[r]) :
                     /\ CanonicalOfReferenced(entities'[r], triplets[r][k].subject_id,
                                              triplets'[r][k].subject_id)
                     /\ CanonicalOfReferenced(entities'[r], triplets[r][k].object_id,
                                              triplets'[r][k].object_id)]_vars

\* A resolved triplet with an endpoint that is the id of a canonical an
\* earlier run persisted, and of no entity of its own batch.
EndpointFromEarlierRun ==
    \E r \in Runs :
        /\ pc[r] = "resolved"
        /\ \E k \in 1..Len(triplets[r]) :
               /\ \A i \in 1..Len(entities[r]) :
                      entities[r][i].id # triplets[r][k].object_id
               /\ \E i \in 1..Len(entities[r]) :
                      entities[r][i].resolved_id = Some(triplets[r][k].object_id)

\* The seeds of the clusters cl: the first member of each.
Seeds(cl) == {cl[k][1] : k \in 1..Len(cl)}

\* Every cluster of cl is led by its earliest member, the seed; a member
\* other than the seed joins the seed, and no member, seed or not, joins a
\* seed of its type that precedes the seed of its cluster.
SeededSinglePass(ents, cl) ==
    \A k \in 1..Len(cl) :
        \A n \in 1..Len(cl[k]) :
            /\ cl[k][1] <= cl[k][n]
            /\ n > 1 => Joins(ents, cl[k][1], cl[k][n])
            /\ \A s \in Seeds(cl) :
                   (s < cl[k][1] /\ ents[s].type = ents[cl[k][1]].type) =>
                       ~Joins(ents, s, cl[k][n])

\* C20: clustering is seeded and single-pass: a mention that is not a seed
\* scores at least 80 against the seed of its cluster, a seed scores below 80
\* against every earlier seed of its type, and a mention is in the cluster of
\* the first seed of its type that it joins.
ClusteringIsSeedBased ==
    \A r \in Runs :
        pc[r] = "resolved" => SeededSinglePass(entities[r], Clusters(entities[r]))

\* The orders of the positions of ents.
Orders(ents) ==
    {p \in [1..Len(ents) -> 1..Len(ents)] : \A a, b \in 1..Len(ents) : p[a] = p[b] => a = b}

\* A resolved run where a member that is not a seed joins a mention its
\* cluster leaves out, and where another order of the same mentions gives
\* another number of clusters.
OrderDecidesClusters ==
    \E r \in Runs :
        /\ pc[r] = "resolved"
        /\ \E k \in 1..Len(Clusters(entities[r])) :
               \E n \in 2..Len(Clusters(entities[r])[k]) :
                   \E j \in 1..Len(entities[r]) :
                       /\ j \notin Range(Clusters(entities[r])[k])
                       /\ entities[r][j].type = entities[r][Clusters(entities[r])[k][n]].type
                       /\ Joins(entities[r], Clusters(entities[r])[k][n], j)
        /\ \E p \in Orders(entities[r]) :
               Len(Clusters([i \in 1..Len(entities[r]) |-> entities[r][p[i]]]))
                   # Len(Clusters(entities[r]))

(***************************************************************************)
(* The assembly of the sample statement's extraction at module level: the   *)
(* entities are mapped by index, and each raw triplet looks its endpoints   *)
(* up in the map with a subscript.                                          *)
(***************************************************************************)
MaxSampleItems == 2  \* raw entities, and raw triplets, of the sample extraction

\* idx_to_entity_map: the last entity of an index is the one of the index.
idx_to_entity_map(raws, nid) ==
    [idx \in {raws[i].entity_idx : i \in 1..Len(raws)} |->
        LET i == MaxOf({j \in 1..Len(raws) : raws[j].entity_idx = idx})
        IN  [id |-> nid + i - 1, name |-> raws[i].name, type |-> raws[i].type,
             description |-> raws[i].description, resolved_id |-> None]]

\* The subscript idx_to_entity_map[...] raises KeyError for an absent index.
Subscripts(t, im) == t.subject_id \in DOMAIN im /\ t.object_id \in DOMAIN im

\* The loop over the raw triplets: it stops at the first KeyError.
AssembleTriplets(rawTriplets, im, nid) ==
    IF \A k \in 1..Len(rawTriplets) : Subscripts(rawTriplets[k], im)
    THEN [outcome |-> "assembled",
          triplets |-> [k \in 1..Len(rawTriplets) |->
              [id |-> nid + k - 1,
               subject_name |-> im[rawTriplets[k].subject_id].name,
               subject_id |-> im[rawTriplets[k].subject_id].id,
               predicate |-> rawTriplets[k].predicate,
               object_name |-> im[rawTriplets[k].object_id].name,
               object_id |-> im[rawTriplets[k].object_id].id,
               value |-> rawTriplets[k].value]]]
    ELSE [outcome |-> "KeyError", triplets |-> <<>>]

AssembleSample ==
    /\ final_triplets.outcome = "unset"
    /\ final_triplets' =
           AssembleTriplets(raw_extraction_result.triplets,
                            idx_to_entity_map(raw_extraction_result.entities, nextId),
                            nextId + Len(raw_extraction_result.entities))
    /\ nextId' = nextId + Len(raw_extraction_result.entities)
                        + Len(final_triplets'.triplets)
    /\ UNCHANGED <<db, pc, entities, triplets, temporal_events, global_canonicals,
                   graph, passes, consulted, before, chunks>>
    /\ UNCHANGED <<raw_extraction_result, agent>>

\* What the triplet extraction chain may return for the sample statement.
SampleEntities ==
    UNION {[1..n -> [entity_idx : {0, 1}, name : {AMD, TSMC},
                     type : {"Organization"}, description : {""}]] :
              n \in 0..MaxSampleItems}

SampleTriplets ==
    UNION {[1..n -> [subject_id : {0, 1, 2}, object_id : {0, 1, 2},
                     predicate : {"HOLDS_ROLE"}, subject_name : {""},
                     object_name : {""}, value : {None}]] :
              n \in 0..MaxSampleItems}

InitSample ==
    /\ InitPipeline
    /\ raw_extraction_result \in [entities : SampleEntities, triplets : SampleTriplets]
    /\ final_triplets = [outcome |-> "unset", triplets |-> <<>>]
    /\ InitAgent

NextSample == AssembleSample

SpecSample == InitSample /\ [][NextSample]_vars

(***************************************************************************)
(* Properties of SpecSample.                                                *)
(***************************************************************************)
\* The raw triplets of the sample with both indexes among its entities.
SampleKept ==
    SelectSeq(raw_extraction_result.triplets,
              LAMBDA t : \A x \in {t.subject_id, t.object_id} :
                  \E i \in 1..Len(raw_extraction_result.entities) :
                      raw_extraction_result.entities[i].entity_idx = x)

\* C21: a raw triplet with an index that is the index of no entity of its
\* statement is dropped alone and nothing fails: the assembly ends without
\* an error, with one Triplet for each raw triplet whose two indexes are
\* present.
DanglingTripletIsDropped ==
    final_triplets.outcome # "unset" =>
        /\ final_triplets.outcome = "assembled"
        /\ Len(final_triplets.triplets) = Len(SampleKept)

(***************************************************************************)
(* Further properties of the graph built, under SpecGraph.                  *)
(***************************************************************************)
\* Triplet k of run r is left out of the graph: no event owns it, or one of
\* its endpoints is not a node.
LeftOut(r, k) ==
    \/ k \notin Owned(r)
    \/ triplets[r][k].subject_id \notin DOMAIN graph[r].nodes
    \/ triplets[r][k].object_id \notin DOMAIN graph[r].nodes

\* C22: every triplet build_graph_from_state leaves out of the graph is
\* reported with the result: none is dropped silently.
SkippedTripletsAreReported ==
    \A r \in Runs :
        pc[r] = "built" =>
            \A k \in 1..Len(triplets[r]) :
                LeftOut(r, k) =>
                    triplets[r][k].id \in
                        SkippedReported(entities[r], triplets[r], temporal_events[r])

NodeFields == {"name", "type", "description"}

\* C23: in the graph built, every edge has both endpoints among the nodes,
\* every node is a canonical entity of the state with name, type and
\* description, and a triplet with an endpoint that is not a node has added
\* neither an edge nor a node.
EdgesJoinEntityNodes ==
    \A r \in Runs :
        pc[r] = "built" =>
            /\ \A key \in DOMAIN graph[r].edges :
                   key[1] \in DOMAIN graph[r].nodes /\ key[2] \in DOMAIN graph[r].nodes
            /\ \A id \in DOMAIN graph[r].nodes :
                   /\ DOMAIN graph[r].nodes[id] = NodeFields
                   /\ \E i \in 1..Len(entities[r]) :
                          /\ entities[r][i].id = id
                          /\ CanonicalOf(entities[r][i]) = id

\* A graph returned with a node, for a state with an owned triplet from
\* that node to an endpoint outside the nodes.
PartialGraphReturned ==
    \E r \in Runs :
        /\ pc[r] = "built"
        /\ \E k \in Owned(r) :
               /\ triplets[r][k].subject_id \in DOMAIN graph[r].nodes
               /\ triplets[r][k].object_id \notin DOMAIN graph[r].nodes

MaxChunks == 2      \* chunks of a batch
MaxChunkStmts == 2  \* statements the chain extracts from one chunk

Blank2023 == <<" ", "2", "0", "2", "3", " ">>
Y0000 == <<"0", "0", "0", "0">>
Day2023 == <<"2", "0", "2", "3", "-", "0", "6", "-", "1", "5">>
NotADate == <<"n", "/", "a">>

\* Statements that differ by their date strings, and statements that differ
\* by their raw entities and triplets.
ChunkStatements ==
    [statement : {"AMD sells GPUs"}, statement_type : {"FACT"},
     temporal_type : {"STATIC"},
     valid_at : {None, Some(<<>>), Some(Y2023), Some(Blank2023), Some(Y0000),
                 Some(Day2023), Some(NotADate)},
     invalid_at : {None},
     entities : {<<>>}, triplets : {<<>>}]
    \cup
    [statement : {"AMD sells GPUs"}, statement_type : {"FACT"},
     temporal_type : {"STATIC"},
     valid_at : {Some(Y2023)},
     invalid_at : {Some(Y2024), Some(Y0000)},
     entities : {<<>>}, triplets : {<<>>}]
    \cup
    [statement : {"Lisa Su is CEO"}, statement_type : {"FACT"},
     temporal_type : {"STATIC"},
     valid_at : {Some(Y2023)},
     invalid_at : {None},
     entities : {<<[entity_idx |-> 0, name |-> AMD, type |-> "Organization",
                    description |-> ""]>>},
     triplets : {<<[subject_id |-> 0, object_id |-> s[1], predicate |-> "IS_A",
                    subject_name |-> "", object_name |-> "", value |-> None],
                   [subject_id |-> 0, object_id |-> s[2], predicate |-> "HOLDS_ROLE",
                    subject_name |-> "", object_name |-> "", value |-> None]>> :
                    s \in {<<0, 0>>, <<1, 0>>, <<0, 1>>}}]

\* raw_stmts: for each chunk, the statements extracted from it.
ChunkBatches ==
    UNION {[1..n -> UNION {[1..k -> ChunkStatements] : k \in 0..MaxChunkStmts}] :
              n \in 1..MaxChunks}

ExtractChunks(r) ==
    /\ pc[r] = "idle"
    /\ \E cs \in ChunkBatches :
           /\ ExtractBatch(r, Flatten(cs))
           /\ chunks' = [chunks EXCEPT ![r] = cs]
    /\ UNCHANGED <<sample, agent>>

NextExtract == ExtractChunks(1)

SpecExtract == Init /\ [][NextExtract]_vars

(***************************************************************************)
(* Properties of SpecExtract.                                               *)
(***************************************************************************)
\* The chunk of each statement of stmts: i for the statements of chunks[i].
ChunkOf(cs) == Flatten([i \in 1..Len(cs) |-> [k \in 1..Len(cs[i]) |-> i]])

\* The raw triplets of statement s with both indexes among its entities.
KeptOf(s) ==
    SelectSeq(s.triplets,
              LAMBDA t : \A x \in {t.subject_id, t.object_id} :
                  \E i \in 1..Len(s.entities) : s.entities[i].entity_idx = x)

\* extract_events_from_chunks gives an event to every statement, and to the
\* event the Triplets of the raw triplets with both indexes present, in order.
ExtractKeepsKnownTriplets ==
    \A r \in Runs :
        pc[r] = "extracted" =>
            /\ Len(temporal_events[r]) = Len(Flatten(chunks[r]))
            /\ \A k \in 1..Len(temporal_events[r]) :
                   /\ Len(temporal_events[r][k].triplets) = Len(KeptOf(Flatten(chunks[r])[k]))
                   /\ \A n \in 1..Len(temporal_events[r][k].triplets) :
                          \E j \in 1..Len(triplets[r]) :
                              /\ triplets[r][j].id = temporal_events[r][k].triplets[n]
                              /\ triplets[r][j].predicate =
                                     KeptOf(Flatten(chunks[r])[k])[n].predicate

\* What the claim gives for a date string: None for an absent or empty one,
\* January 1st of the year for a bare 4-digit year.
YearRule(raw, parsed) ==
    /\ (raw = None \/ Val(raw) = <<>>) => parsed = None
    /\ (raw # None /\ IsYearOnly(Strip(Val(raw)))) =>
           parsed = Some(Ordinal(IntOf(Strip(Val(raw))), 1, 1))

\* C25: parse_date_str gives None for an absent or empty date string, and
\* January 1st of the year for every string that, trimmed of blanks, is a
\* bare 4-digit year; no date string makes the extraction fail.
BareYearIsJanuaryFirst ==
    \A r \in Runs :
        pc[r] = "extracted" =>
            /\ Len(temporal_events[r]) = Len(Flatten(chunks[r]))
            /\ \A k \in 1..Len(temporal_events[r]) :
                   /\ YearRule(Flatten(chunks[r])[k].valid_at,
                               temporal_events[r][k].valid_at)
                   /\ YearRule(Flatten(chunks[r])[k].invalid_at,
                               temporal_events[r][k].invalid_at)

\* C26: the events of the statements of one chunk carry the same chunk_id,
\* and the events of statements of different chunks different chunk_ids.
ChunkIdLinksToChunk ==
    \A r \in Runs :
        pc[r] = "extracted" =>
            \A a, b \in 1..Len(temporal_events[r]) :
                (ChunkOf(chunks[r])[a] = ChunkOf(chunks[r])[b])
                    <=> (temporal_events[r][a].chunk_id = temporal_events[r][b].chunk_id)

(***************************************************************************)
(* The invalidated_by relation, under Spec.                                 *)
(***************************************************************************)
\* The position of the event that invalidated evs[i], or 0.
Invalidator(evs, i) ==
    IF i = 0 \/ ~IsSet(evs[i].invalidated_by) THEN 0
    ELSE IF \E j \in 1..Len(evs) : evs[j].id = Val(evs[i].invalidated_by)
         THEN CHOOSE j \in 1..Len(evs) : evs[j].id = Val(evs[i].invalidated_by)
         ELSE 0

\* The position n steps of invalidated_by away from i, or 0.
RECURSIVE Follow(_, _, _)
Follow(evs, i, n) == IF n = 0 THEN i ELSE Follow(evs, Invalidator(evs, i), n - 1)

\* C27: after invalidate_events_in_state the invalidated_by relation has no
\* cycle: no chain of events, each invalidated by the next, comes back to
\* its first event.
InvalidatedByHasNoCycle ==
    \A r \in Runs :
        pc[r] = "invalidated" =>
            \A i \in 1..Len(temporal_events[r]) :
                \A n \in 1..Len(temporal_events[r]) :
                    Follow(temporal_events[r], i, n) # i

(***************************************************************************)
(* MCPClient.call_tool: a loop of at most `retries` POST requests.  mcp     *)
(* holds the position of the call, its parameter retries, the loop variable *)
(* attempt, the responses of the requests sent, the sleeps made and what    *)
(* the call returned or raised.                                             *)
(***************************************************************************)
MaxRetries == 4  \* greatest value of the parameter retries

\* What a POST may meet: no response (a transport error or the timeout), or
\* a response with a status and a body that is JSON or not.
Responses ==
    [arrived : {FALSE}, ok : {FALSE}, json : {None}]
        \cup [arrived : {TRUE}, ok : {FALSE}, json : {None, Some("error")}]
        \cup [arrived : {TRUE}, ok : {TRUE}, json : {None, Some("result")}]

\* The exception an attempt raises on the response, or None: client.post
\* raises without a response, raise_for_status on an error status, and
\* response.json on a body that is not JSON.
AttemptError(resp) ==
    IF ~resp.arrived THEN Some("TransportError")
    ELSE IF ~resp.ok THEN Some("HTTPStatusError")
    ELSE IF resp.json = None THEN Some("JSONDecodeError")
    ELSE None

RECURSIVE Pow2(_)
Pow2(n) == IF n = 0 THEN 1 ELSE 2 * Pow2(n - 1)

\* The except clause: the last attempt re-raises, another one sleeps
\* 2 ** attempt seconds and the loop goes on.
OnError(c, err) ==
    IF c.attempt = c.retries - 1
    THEN [c EXCEPT !.pc = "raised", !.raised = err]
    ELSE [c EXCEPT !.sleeps = Append(@, Pow2(c.attempt)), !.attempt = @ + 1]

\* One iteration of the loop, on the response resp to its POST.
Iteration(c, resp) ==
    IF AttemptError(resp) = None
    THEN [c EXCEPT !.posts = Append(@, resp), !.pc = "returned", !.returned = resp.json]
    ELSE OnError([c EXCEPT !.posts = Append(@, resp)], AttemptError(resp))

\* call_tool(tool_name, payload, retries): with retries = 0 the loop has no
\* iteration and the call returns None.
CallTool ==
    /\ mcp.pc = "idle"
    /\ \E n \in 0..MaxRetries :
           mcp' = [pc |-> IF n = 0 THEN "returned" ELSE "posting", retries |-> n,
                   attempt |-> 0, posts |-> <<>>, sleeps |-> <<>>,
                   returned |-> None, raised |-> None]
    /\ UNCHANGED <<pipeline, chunks, sample, qa, chat_history, handlers, arrivals>>

Attempt ==
    /\ mcp.pc = "posting"
    /\ \E resp \in Responses : mcp' = Iteration(mcp, resp)
    /\ UNCHANGED <<pipeline, chunks, sample, qa, chat_history, handlers, arrivals>>

NextClient == CallTool \/ Attempt

SpecClient == Init /\ [][NextClient]_vars

(***************************************************************************)
(* Properties of SpecClient.                                                *)
(***************************************************************************)
\* C28: call_tool with retries >= 1 sends at most retries requests; the
\* first request answered with a success status is the last one sent and
\* the call returns its JSON; the call raises exactly when retries requests
\* failed, with the error of the last; and the k-th failed attempt that is
\* not the last is followed by a sleep of 2 ** (k - 1) seconds.
FirstSuccessEndsTheCall ==
    mcp.retries >= 1 =>
        /\ Len(mcp.posts) <= mcp.retries
        /\ \A k \in 1..Len(mcp.posts) :
               (mcp.posts[k].arrived /\ mcp.posts[k].ok) =>
                   /\ k = Len(mcp.posts)
                   /\ mcp.pc = "returned"
                   /\ mcp.returned = mcp.posts[k].json
        /\ mcp.pc = "raised" <=>
               /\ Len(mcp.posts) = mcp.retries
               /\ \A k \in 1..Len(mcp.posts) : ~(mcp.posts[k].arrived /\ mcp.posts[k].ok)
        /\ mcp.pc = "raised" => mcp.raised = AttemptError(mcp.posts[Len(mcp.posts)])
        /\ \A k \in 1..Len(mcp.sleeps) : mcp.sleeps[k] = Pow2(k - 1)

(***************************************************************************)
(* The question-answering workflow: a graph of four nodes.  qa.next is the  *)
(* node to run next ("idle" before the run, "END" after it) and qa.trace    *)
(* the nodes run so far, each with the output that decides its edge.        *)
(***************************************************************************)
MaxSteps == 12  \* nodes run by one run of the workflow

\* binary_score as the grader model may return it; "" stands for no score.
Scores == {"yes", "no", "Yes", ""}

\* A grader edge that takes any spelling of yes.
grade_documents_any_case(score) ==
    IF score \in {"yes", "Yes"} THEN "generate_answer" ELSE "rewrite_question"

\* grade_documents, the conditional edge after retrieve.
grade_documents(score) ==
    IF score = "yes" THEN "generate_answer" ELSE "rewrite_question"

\* tools_condition with the mapping of the conditional edge: "tools" is
\* retrieve.
tools_condition(tool_calls) == IF tool_calls THEN "retrieve" ELSE "END"

Ran(node, out, next) ==
    /\ Len(qa.trace) < MaxSteps
    /\ qa' = [next |-> next, trace |-> Append(qa.trace, [node |-> node, out |-> out])]
    /\ UNCHANGED <<pipeline, chunks, sample, mcp, chat_history, handlers, arrivals>>

\* graph.astream({"messages": ...}): the edge from START.
Invoke ==
    /\ qa.next = "idle"
    /\ qa' = [qa EXCEPT !.next = "generate_query_or_respond"]
    /\ UNCHANGED <<pipeline, chunks, sample, mcp, chat_history, handlers, arrivals>>

generate_query_or_respond ==
    /\ qa.next = "generate_query_or_respond"
    /\ \E tool_calls \in BOOLEAN :
           Ran("generate_query_or_respond",
               IF tool_calls THEN "tool_calls" ELSE "respond",
               tools_condition(tool_calls))

retrieve ==
    /\ qa.next = "retrieve"
    /\ \E score \in Scores : Ran("retrieve", score, grade_documents(score))

rewrite_question ==
    /\ qa.next = "rewrite_question"
    /\ Ran("rewrite_question", "", "generate_query_or_respond")

generate_answer ==
    /\ qa.next = "generate_answer"
    /\ Ran("generate_answer", "", "END")

NextWorkflow ==
    \/ Invoke
    \/ generate_query_or_respond
    \/ retrieve
    \/ rewrite_question
    \/ generate_answer

SpecWorkflow == Init /\ [][NextWorkflow]_vars

(***************************************************************************)
(* Properties of SpecWorkflow.                                              *)
(***************************************************************************)
\* The node that runs at position k of the trace, or the node to run next
\* for the position after the trace.
NodeAt(k) == IF k <= Len(qa.trace) THEN qa.trace[k].node ELSE qa.next

\* C29: generate_answer runs only directly after a retrieve step graded
\* "yes"; a retrieve step graded otherwise is followed by rewrite_question
\* and then generate_query_or_respond; a run ends only after generate_answer
\* or a generate_query_or_respond step without a tool call.
AnswerOnlyAfterYes ==
    /\ \A k \in 1..(Len(qa.trace) + 1) :
           NodeAt(k) = "generate_answer" =>
               /\ k > 1
               /\ qa.trace[k - 1].node = "retrieve"
               /\ qa.trace[k - 1].out = "yes"
    /\ \A k \in 1..Len(qa.trace) :
           (qa.trace[k].node = "retrieve" /\ qa.trace[k].out # "yes") =>
               /\ NodeAt(k + 1) = "rewrite_question"
               /\ k + 1 <= Len(qa.trace) => NodeAt(k + 2) = "generate_query_or_respond"
    /\ qa.next = "END" =>
           /\ qa.trace # <<>>
           /\ \/ qa.trace[Len(qa.trace)].node = "generate_answer"
              \/ /\ qa.trace[Len(qa.trace)].node = "generate_query_or_respond"
                 /\ qa.trace[Len(qa.trace)].out = "respond"

\* A run that ended with an answer after a retrieve step graded "Yes" sent
\* it through rewrite_question.
AnsweredAfterRewrite ==
    /\ qa.next = "END"
    /\ qa.trace[Len(qa.trace)].node = "generate_answer"
    /\ \E k \in 1..Len(qa.trace) :
           /\ qa.trace[k].node = "retrieve" /\ qa.trace[k].out = "Yes"
           /\ qa.trace[k + 1].node = "rewrite_question"

(***************************************************************************)
(* The chat endpoints.  A handler is a POST /chat request or a /chat/ws     *)
(* socket; the coroutines run on one event loop, so the statements between  *)
(* two awaits form one step.  A message arrives when the await that reads   *)
(* it returns; arrivals records it with the user_id its request gave.       *)
(***************************************************************************)
Users == {"u1", "u2"}
Contents == {"hello", "why"}

Free == [kind |-> "none", user_id |-> "", pc |-> "free"]

\* data.get("user_id", "anonymous"), and query_params.get likewise.
UserIdOf(given) == IF given = None THEN "anonymous" ELSE Val(given)

\* chat_history.setdefault(user_id, []).
setdefault(history, user_id) ==
    IF user_id \in DOMAIN history THEN history
    ELSE [u \in DOMAIN history \cup {user_id} |->
             IF u = user_id THEN <<>> ELSE history[u]]

\* An assignment of a list of the message alone.
Replaced(history, user_id, content) ==
    [setdefault(history, user_id) EXCEPT
        ![user_id] = <<[role |-> "user", content |-> content]>>]

\* chat_history[user_id].append({"role": "user", "content": content}) on
\* the list setdefault gives.
Appended(history, user_id, content) ==
    [setdefault(history, user_id) EXCEPT
        ![user_id] = Append(@, [role |-> "user", content |-> content])]

Arrived(given, content) ==
    /\ Len(arrivals) < MaxMessages
    /\ arrivals' = Append(arrivals, [user_id |-> given, content |-> content])

\* chat, up to the await of the workflow: the message is appended.
Chat(h) ==
    /\ handlers[h].pc = "free"
    /\ \E given \in {None} \cup {Some(u) : u \in Users}, content \in Contents :
           /\ Arrived(given, content)
           /\ chat_history' = Appended(chat_history, UserIdOf(given), content)
           /\ handlers' = [handlers EXCEPT ![h] =
                  [kind |-> "chat", user_id |-> UserIdOf(given), pc |-> "answering"]]
    /\ UNCHANGED <<pipeline, chunks, sample, mcp, qa>>

\* chat, after the workflow: the answer goes into the response only.
ChatReturn(h) ==
    /\ handlers[h].kind = "chat" /\ handlers[h].pc = "answering"
    /\ handlers' = [handlers EXCEPT ![h] = Free]
    /\ UNCHANGED <<pipeline, chunks, sample, mcp, qa, chat_history, arrivals>>

\* chat_ws, up to the first receive_text.
Connect(h) ==
    /\ handlers[h].pc = "free"
    /\ \E given \in {None} \cup {Some(u) : u \in Users} :
           /\ chat_history' = setdefault(chat_history, UserIdOf(given))
           /\ handlers' = [handlers EXCEPT ![h] =
                  [kind |-> "ws", user_id |-> UserIdOf(given), pc |-> "receiving"]]
    /\ UNCHANGED <<pipeline, chunks, sample, mcp, qa, arrivals>>

\* chat_ws: receive_text returns a message, which is appended.
Receive(h) ==
    /\ handlers[h].kind = "ws" /\ handlers[h].pc = "receiving"
    /\ \E content \in Contents :
           /\ Arrived(IF handlers[h].user_id = "anonymous" THEN None
                      ELSE Some(handlers[h].user_id), content)
           /\ chat_history' = Appended(chat_history, handlers[h].user_id, content)
    /\ handlers' = [handlers EXCEPT ![h].pc = "answering"]
    /\ UNCHANGED <<pipeline, chunks, sample, mcp, qa>>

\* chat_ws: the answers are sent on the socket and the loop goes on.
Answered(h) ==
    /\ handlers[h].kind = "ws" /\ handlers[h].pc = "answering"
    /\ handlers' = [handlers EXCEPT ![h].pc = "receiving"]
    /\ UNCHANGED <<pipeline, chunks, sample, mcp, qa, chat_history, arrivals>>

\* chat_ws: WebSocketDisconnect, raised by receive_text or send_text.
Disconnect(h) ==
    /\ handlers[h].kind = "ws"
    /\ handlers' = [handlers EXCEPT ![h] = Free]
    /\ UNCHANGED <<pipeline, chunks, sample, mcp, qa, chat_history, arrivals>>

\* get_history(user_id): chat_history.get(user_id, []).
get_history(user_id) ==
    IF user_id \in DOMAIN chat_history THEN chat_history[user_id] ELSE <<>>

NextChat ==
    \E h \in 1..MaxHandlers :
        \/ Chat(h)
        \/ ChatReturn(h)
        \/ Connect(h)
        \/ Receive(h)
        \/ Answered(h)
        \/ Disconnect(h)

SpecChat == Init /\ [][NextChat]_vars

(***************************************************************************)
(* Properties of SpecChat.                                                  *)
(***************************************************************************)
\* The messages that arrived for user u, in order of arrival: those whose
\* request gave the user_id u and, for "anonymous", those that gave none.
SubmittedFor(u) ==
    SelectSeq(arrivals,
              LAMBDA a : a.user_id = Some(u) \/ (u = "anonymous" /\ a.user_id = None))

\* C30: the history of a user is the sequence of the messages submitted with
\* the user's id, in order of arrival and each with the role "user"; the
\* messages without a user_id are the history of "anonymous".
HistoryIsWhatArrived ==
    \A u \in Users \cup {"anonymous"} :
        get_history(u) =
            [k \in 1..Len(SubmittedFor(u)) |->
                [role |-> "user", content |-> SubmittedFor(u)[k].content]]

\* A message without user_id has arrived before one of u1, u1 has two
\* messages, and a request and a socket are being answered at the same time.
InterleavedChats ==
    /\ Len(arrivals) = MaxMessages
    /\ \E a, b \in 1..Len(arrivals) :
           /\ a < b
           /\ arrivals[a].user_id = None
           /\ arrivals[b].user_id = Some("u1")
    /\ Len(get_history("anonymous")) >= 1
    /\ Len(get_history("u1")) = 2
    /\ \E g, h \in 1..MaxHandlers :
           /\ handlers[g].kind = "chat"
           /\ handlers[h].kind = "ws" /\ handlers[h].pc = "answering"

=============================================================================
